---- MODULE Spec2Model ----
(***************************************************************************)
(* A model of skill_eval: the report generator (reporter.py:               *)
(* generate_report, save_report) and the `run` command (cli.py: run).      *)
(*                                                                         *)
(* Python values are modelled as follows.                                  *)
(*   - a str is a TLA+ string; the three non-ASCII glyphs of the report    *)
(*     are written as the tokens CHECK, CROSS, BALLOT, and the backtick    *)
(*     as BACKTICK;                                                        *)
(*   - None is the empty tuple <<>> and any other optional value v is the  *)
(*     one-element tuple <<v>>;                                            *)
(*   - a dict whose keys are fixed field names (a grade record, a grade    *)
(*     document) is a function whose DOMAIN is the set of keys present;    *)
(*   - a dict keyed by free names (results, a scenario's skill-sets,       *)
(*     skill_set_stats) is the sequence of its <<key, value>> items in     *)
(*     iteration (insertion) order, keys pairwise distinct;                *)
(*   - a call's outcome is a record [raised |-> exception name or "",      *)
(*     value |-> the returned value].                                      *)
(* Floats: passed/total*100 and sum/len are modelled as exact rationals    *)
(* and the formats .0f and .1f as round-half-to-even of the exact value;   *)
(* CPython gives the same digits for every total below 40 and every        *)
(* count of scores below 20, which covers the bounds used here.            *)
(***************************************************************************)
EXTENDS Integers, Sequences, FiniteSets, TLC

VARIABLES
    run_dir,       \* the run directory handed to generate_report / save_report
    grades,        \* what load_grades(run_dir) returns: None or <<document>>
    reports,       \* reports_dir: the content of each file it holds, by name
    call,          \* the last call made: "none", "generate_report", "save_report"
    outcome,       \* that call's outcome
    locals,        \* generate_report's locals lines and skill_set_stats when it ended
    scenario,      \* run: the argument, None or <<name>>
    all_scenarios, \* run: the --all option
    scenarios_dir, \* run: evals/scenarios, None or <<its entries in iterdir order>>
    pc,            \* run: the position in the command
    scenario_dirs, \* run: the scenarios selected
    si,            \* run: the place in scenario_dirs of the scenario at hand
    ki,            \* run: the place in its skill_sets of the skill-set at hand
    created,       \* run: the run directories created, in order
    calls,         \* run: the runner.run_scenario calls made, in order
    successes,     \* run: the success of each call's result, in order
    exit_code      \* run: None while the command runs, then <<its exit code>>

reportVars == <<run_dir, grades, reports, call, outcome, locals>>

runVars == <<scenario, all_scenarios, scenarios_dir, pc, scenario_dirs, si, ki,
             created, calls, successes, exit_code>>

vars == <<run_dir, grades, reports, call, outcome, locals,
          scenario, all_scenarios, scenarios_dir, pc, scenario_dirs, si, ki,
          created, calls, successes, exit_code>>

---------------------------------------------------------------------------
(* Python values *)

None == <<>>

Some(v) == <<v>>

Returned(v) == [raised |-> "", value |-> v]

Raised(e) == [raised |-> e, value |-> None]

\* dict.get(key, default) on a dict of fixed field names
DictGet(d, key, default) == IF key \in DOMAIN d THEN d[key] ELSE default

\* the glyphs of the report, U+2713, U+274C, U+2717, and the backtick
CHECK == "{U+2713}"

CROSS == "{U+274C}"

BALLOT == "{U+2717}"

BACKTICK == "{U+0060}"

---------------------------------------------------------------------------
(* str: code points, comparison, lower(), str(int), join *)

DigitChars == "0123456789"

UpperChars == "ABCDEFGHIJKLMNOPQRSTUVWXYZ"

LowerChars == "abcdefghijklmnopqrstuvwxyz"

CharAt(s, i) == SubSeq(s, i, i)

IndexIn(c, alphabet) ==
    IF \E i \in 1..Len(alphabet) : CharAt(alphabet, i) = c
    THEN CHOOSE i \in 1..Len(alphabet) : CharAt(alphabet, i) = c
    ELSE 0

\* the code points of the characters names are made of: space, '-', '.', digits,
\* upper case letters, '_', lower case letters
CodePoints ==
    [c \in {" ", "-", ".", "_"} |->
        IF c = " " THEN 32 ELSE IF c = "-" THEN 45 ELSE IF c = "." THEN 46 ELSE 95]
    @@ [c \in {CharAt(DigitChars, i) : i \in 1..10} |-> 47 + IndexIn(c, DigitChars)]
    @@ [c \in {CharAt(UpperChars, i) : i \in 1..26} |-> 64 + IndexIn(c, UpperChars)]
    @@ [c \in {CharAt(LowerChars, i) : i \in 1..26} |-> 96 + IndexIn(c, LowerChars)]

\* ord(c)
Ord(c) == CodePoints[c]

\* the lower case letter of each upper case letter
LowerOf == [c \in {CharAt(UpperChars, i) : i \in 1..26} |-> CharAt(LowerChars, IndexIn(c, UpperChars))]

\* a < b on str: the first differing code point decides, a proper prefix is less
RECURSIVE StrLess(_, _)
StrLess(a, b) ==
    IF Len(b) = 0 THEN FALSE
    ELSE IF Len(a) = 0 THEN TRUE
    ELSE IF Ord(CharAt(a, 1)) # Ord(CharAt(b, 1)) THEN Ord(CharAt(a, 1)) < Ord(CharAt(b, 1))
    ELSE StrLess(SubSeq(a, 2, Len(a)), SubSeq(b, 2, Len(b)))

\* str.lower()
RECURSIVE StrLower(_)
StrLower(s) ==
    IF Len(s) = 0 THEN ""
    ELSE LET c == CharAt(s, 1)
         IN (IF c \in DOMAIN LowerOf THEN LowerOf[c] ELSE c) \o StrLower(SubSeq(s, 2, Len(s)))

\* s.startswith(prefix)
StartsWith(s, prefix) == Len(s) >= Len(prefix) /\ SubSeq(s, 1, Len(prefix)) = prefix

\* str(n) for n >= 0
RECURSIVE StrNat(_)
StrNat(n) ==
    IF n < 10 THEN CharAt(DigitChars, n + 1)
    ELSE StrNat(n \div 10) \o CharAt(DigitChars, (n % 10) + 1)

\* str(n), format(n, "d")
StrInt(n) == IF n < 0 THEN "-" \o StrNat(-n) ELSE StrNat(n)

\* "\n".join(lines)
RECURSIVE Join(_)
Join(ls) ==
    IF Len(ls) = 0 THEN ""
    ELSE IF Len(ls) = 1 THEN ls[1]
    ELSE ls[1] \o "\n" \o Join(Tail(ls))

\* sum(scores)
RECURSIVE Sum(_)
Sum(xs) == IF Len(xs) = 0 THEN 0 ELSE xs[1] + Sum(Tail(xs))

---------------------------------------------------------------------------
(* float formatting *)

\* the integer nearest to num/den (num >= 0, den > 0), a tie going to the even one
RoundHalfEven(num, den) ==
    LET q == num \div den
        r == num % den
    IN IF 2 * r > den \/ (2 * r = den /\ q % 2 = 1) THEN q + 1 ELSE q

\* f"{num/den:.0f}"
FormatF0(num, den) ==
    LET n == RoundHalfEven(IF num < 0 THEN -num ELSE num, den)
    IN (IF num < 0 THEN "-" ELSE "") \o StrNat(n)

\* f"{num/den:.1f}"
FormatF1(num, den) ==
    LET t == RoundHalfEven(10 * (IF num < 0 THEN -num ELSE num), den)
    IN (IF num < 0 THEN "-" ELSE "") \o StrNat(t \div 10) \o "." \o StrNat(t % 10)

---------------------------------------------------------------------------
(* dicts keyed by free names: sequences of <<key, value>> items *)

Keys(d) == {d[i][1] : i \in 1..Len(d)}

\* d[key], for a key of d
ItemValue(d, key) == d[CHOOSE i \in 1..Len(d) : d[i][1] = key][2]

\* d[key] = value: an existing key keeps its place, a new one goes last
SetItem(d, key, value) ==
    IF key \in Keys(d)
    THEN [i \in 1..Len(d) |-> IF d[i][1] = key THEN <<key, value>> ELSE d[i]]
    ELSE Append(d, <<key, value>>)

\* one item put in its place in a list sorted by key
RECURSIVE InsertSorted(_, _)
InsertSorted(item, sorted) ==
    IF Len(sorted) = 0 THEN <<item>>
    ELSE IF StrLess(item[1], sorted[1][1]) THEN <<item>> \o sorted
    ELSE <<sorted[1]>> \o InsertSorted(item, Tail(sorted))

\* a slip at lines 50, 64, 67: the items taken in iteration order
UnsortedItems(d) == d

\* sorted(d.items()): the keys are distinct, so the key alone orders the items
RECURSIVE SortedItems(_)
SortedItems(d) ==
    IF Len(d) = 0 THEN <<>>
    ELSE InsertSorted(d[1], SortedItems(Tail(d)))

---------------------------------------------------------------------------
(* generate_report: the aggregation, reporter.py lines 27-45 *)

ToolUsageKeys == {"appropriate", "partial", "inappropriate"}

NewStats ==
    [passed |-> 0, total |-> 0, scores |-> <<>>,
     tool_usage |-> [k \in ToolUsageKeys |-> 0]]

\* a slip at line 39: every record that is not an explicit failure passes
CountsAsPassedUnlessFalse(data) == DictGet(data, "success", None) # Some(FALSE)

\* line 39: if data.get("success")
CountsAsPassed(data) == DictGet(data, "success", None) = Some(TRUE)

\* a slip at line 41: if data.get("score"), which drops a score of 0
HasScoreTruthy(data) ==
    DictGet(data, "score", None) # None /\ DictGet(data, "score", None) # Some(0)

\* line 41: if data.get("score") is not None
HasScore(data) == DictGet(data, "score", None) # None

\* a slip at line 43: the label looked up as written, not lower-cased
TallyKeyAsWritten(label) == label

\* line 43: the label the tallies are looked up with
TallyKey(label) == StrLower(label)

\* lines 30-45 for one (skill_set_name, data) item; acc is the outcome so far
AggregateRecord(acc, skill_set_name, data) ==
    IF acc.raised # "" THEN acc
    ELSE
    LET stats0 == IF skill_set_name \in Keys(acc.value)
                  THEN acc.value
                  ELSE SetItem(acc.value, skill_set_name, NewStats)
        e0 == ItemValue(stats0, skill_set_name)
        e1 == [e0 EXCEPT !.total = @ + 1]
        e2 == IF CountsAsPassed(data) THEN [e1 EXCEPT !.passed = @ + 1] ELSE e1
        e3 == IF HasScore(data) THEN [e2 EXCEPT !.scores = Append(@, data["score"][1])]
              ELSE e2
        raw == DictGet(data, "tool_usage", Some(""))
    IN IF raw = None
       THEN Raised("AttributeError")
       ELSE LET tool_usage == TallyKey(raw[1])
                e4 == IF tool_usage \in DOMAIN e3.tool_usage
                      THEN [e3 EXCEPT !.tool_usage[tool_usage] = @ + 1]
                      ELSE e3
            IN Returned(SetItem(stats0, skill_set_name, e4))

\* the inner loop, line 29, over one scenario's items
RECURSIVE AggregateScenario(_, _)
AggregateScenario(acc, skill_sets) ==
    IF Len(skill_sets) = 0 THEN acc
    ELSE AggregateScenario(AggregateRecord(acc, skill_sets[1][1], skill_sets[1][2]),
                           Tail(skill_sets))

\* the outer loop, line 28, over results.items()
RECURSIVE Aggregate(_, _)
Aggregate(acc, results) ==
    IF Len(results) = 0 THEN acc
    ELSE Aggregate(AggregateScenario(acc, results[1][2]), Tail(results))

---------------------------------------------------------------------------
(* generate_report: the rendering, reporter.py lines 47-79 *)

\* what an f-string makes of an optional str
FStr(x) == IF x = None THEN "None" ELSE x[1]

\* lines 51-58: one row of the summary table
SummaryRow(skill_set_name, stats) ==
    LET passed == stats.passed
        total == stats.total
        pct == IF total > 0 THEN FormatF0(passed * 100, total) ELSE "0"
        scores == stats.scores
        avg_score == IF Len(scores) > 0 THEN FormatF1(Sum(scores), Len(scores))
                     ELSE FormatF1(0, 1)
        tool_stats == stats.tool_usage
        tool_str == StrNat(tool_stats["appropriate"]) \o CHECK \o " "
                    \o StrNat(tool_stats["partial"]) \o "~ "
                    \o StrNat(tool_stats["inappropriate"]) \o BALLOT
    IN "| " \o skill_set_name \o " | " \o StrNat(passed) \o "/" \o StrNat(total)
       \o " (" \o pct \o "%) | " \o avg_score \o " | " \o tool_str \o " |"

\* lines 50-58 over the sorted items
SummaryRows(sorted_stats) ==
    [i \in 1..Len(sorted_stats) |-> SummaryRow(sorted_stats[i][1], sorted_stats[i][2])]

\* a slip at line 73: whatever is not a pass is shown as a failure
StatusIconPassOrFail(success) == IF success = Some(TRUE) THEN CHECK ELSE CROSS

\* line 73: the status glyph
StatusIcon(success) ==
    IF success = Some(TRUE) THEN CHECK
    ELSE IF success = Some(FALSE) THEN CROSS
    ELSE "?"

\* lines 68-78: one line of a scenario
DetailLine(skill_set_name, data) ==
    LET success == DictGet(data, "success", None)
        score == DictGet(data, "score", None)
        tool_usage == DictGet(data, "tool_usage", Some(""))
        notes == DictGet(data, "notes", Some(""))
        icon == StatusIcon(success)
        score_str == IF score # None THEN "(" \o StrInt(score[1]) \o ")" ELSE ""
        tool_str == IF tool_usage # None /\ tool_usage # Some("")
                    THEN " [tools: " \o tool_usage[1] \o "]" ELSE ""
        notes_str == IF notes # None /\ notes # Some("")
                     THEN " - " \o notes[1] ELSE ""
    IN "- **" \o skill_set_name \o "**: " \o icon \o " " \o score_str \o tool_str \o notes_str

\* lines 67-78 over one scenario's sorted items
DetailLines(sorted_skill_sets) ==
    [i \in 1..Len(sorted_skill_sets) |->
        DetailLine(sorted_skill_sets[i][1], sorted_skill_sets[i][2])]

\* lines 64-79 over the sorted scenarios
RECURSIVE ScenarioSections(_)
ScenarioSections(sorted_results) ==
    IF Len(sorted_results) = 0 THEN <<>>
    ELSE <<"### " \o sorted_results[1][1], "">>
         \o DetailLines(SortedItems(sorted_results[1][2]))
         \o <<"">>
         \o ScenarioSections(Tail(sorted_results))

---------------------------------------------------------------------------
(* generate_report, reporter.py lines 8-81 *)

\* Path.name: what follows the last "/"
RECURSIVE PathName(_)
PathName(path) ==
    IF \E i \in 1..Len(path) : CharAt(path, i) = "/"
    THEN PathName(SubSeq(path, 1 + (CHOOSE i \in 1..Len(path) : CharAt(path, i) = "/"),
                         Len(path)))
    ELSE path

\* line 12
FallbackText ==
    "# No grades found\n\nRun " \o BACKTICK \o "skill-eval grade" \o BACKTICK \o " first."

NoLocals == [lines |-> <<>>, skill_set_stats |-> <<>>]

\* a slip at line 11: only a missing results key is taken for "no grades"
NoGradesUnlessKey(g) ==
    \/ g = None
    \/ DOMAIN g[1] = {}
    \/ DictGet(g[1], "results", None) = None

\* a slip at line 11: results without any record are taken for "no grades" too
NoGradesUnlessRecord(g) ==
    \/ g = None
    \/ DOMAIN g[1] = {}
    \/ DictGet(g[1], "results", None) = None
    \/ \A i \in 1..Len(DictGet(g[1], "results", None)[1]) :
          Len(DictGet(g[1], "results", None)[1][i][2]) = 0

\* line 11: not grades or not grades.get("results")
NoGrades(g) ==
    \/ g = None
    \/ DOMAIN g[1] = {}
    \/ DictGet(g[1], "results", None) = None
    \/ Len(DictGet(g[1], "results", None)[1]) = 0

\* lines 17-25
HeaderLines(doc, run_id) ==
    << "# Eval Report: " \o run_id,
       "",
       "Graded: " \o FStr(DictGet(doc, "graded_at", Some("Not yet"))),
       "Grader: " \o FStr(DictGet(doc, "grader", Some("unknown"))),
       "",
       "## Summary",
       "" >>

\* lines 47-48
TableHeader ==
    << "| Skill Set | Passed | Avg Score | Tool Usage |",
       "|-----------|--------|-----------|------------|" >>

\* generate_report(run_dir), given the outcome `loaded` of load_grades(run_dir):
\* the call's outcome and its locals when it ended
GenerateReport(loaded, dir) ==
    IF loaded.raised # "" THEN [out |-> loaded, locals |-> NoLocals]
    ELSE IF NoGrades(loaded.value) THEN [out |-> Returned(FallbackText), locals |-> NoLocals]
    ELSE
    LET doc == loaded.value[1]
        results == doc["results"][1]
        run_id == PathName(dir)
        agg == Aggregate(Returned(<<>>), results)
    IN IF agg.raised # ""
       THEN [out |-> agg, locals |-> NoLocals]
       ELSE LET lines == HeaderLines(doc, run_id)
                         \o TableHeader
                         \o SummaryRows(SortedItems(agg.value))
                         \o <<"", "## By Scenario", "">>
                         \o ScenarioSections(SortedItems(results))
            IN [out |-> Returned(Join(lines)),
                locals |-> [lines |-> lines, skill_set_stats |-> agg.value]]

---------------------------------------------------------------------------
(* save_report, reporter.py lines 84-89 *)

\* a slip at line 88: a failed write passed over in silence
WriteTextSilently(files, name, report, io) ==
    IF io = "ok" THEN [out |-> Returned(Len(report)), files |-> (name :> report) @@ files]
    ELSE IF io = "open_fails" THEN [out |-> Returned(0), files |-> files]
    ELSE [out |-> Returned(0), files |-> (name :> "") @@ files]

\* Path.write_text(report) on reports_dir/name: the outcome and the directory after
\* it. `io` is what the file system does: "ok"; "open_fails" (the directory is
\* missing or not writable: nothing changes); "write_fails" (the file was opened,
\* hence created or emptied, and the write failed).
WriteText(files, name, report, io) ==
    IF io = "ok" THEN [out |-> Returned(Len(report)), files |-> (name :> report) @@ files]
    ELSE IF io = "open_fails" THEN [out |-> Raised("OSError"), files |-> files]
    ELSE [out |-> Raised("OSError"), files |-> (name :> "") @@ files]

\* save_report(run_dir, reports_dir), given the outcome of load_grades and what the
\* file system does: the call's outcome, reports_dir after it, generate_report's locals
SaveReport(loaded, dir, files, io) ==
    LET gen == GenerateReport(loaded, dir)
        report_file == PathName(dir) \o ".md"
        written == WriteText(files, report_file, gen.out.value, io)
    IN IF gen.out.raised # ""
       THEN [out |-> gen.out, files |-> files, locals |-> gen.locals]
       ELSE IF written.out.raised # ""
       THEN [out |-> written.out, files |-> written.files, locals |-> gen.locals]
       ELSE [out |-> Returned("reports/" \o report_file), files |-> written.files,
             locals |-> gen.locals]

---------------------------------------------------------------------------
(* the inputs: run directories, grade documents, reports directories *)

\* the marker of a key that a record does not hold
Absent == <<"absent", "absent">>

\* the grade record with the given fields, the Absent ones left out
GradeRecord(success, score, tool_usage, notes) ==
    LET all == [success |-> success, score |-> score,
                tool_usage |-> tool_usage, notes |-> notes]
    IN [k \in {f \in DOMAIN all : all[f] # Absent} |-> all[k]]

\* a graded document holding `results`
GradeDocument(results) ==
    [results |-> Some(results), graded_at |-> Some("2024-05-01T10:00:00")]

MaxScenarios == 2

MaxRepeat == 8

MaxScored == 4

RunDirs == {"evals/runs/20240501-120000", "r2"}

ScenarioNames == {"login", "Signup", "log"}

SkillSetNames == {"B", "a"}

\* the sequences of at most n pairwise distinct elements of S
DistinctSeqs(S, n) ==
    {q \in UNION {[1..k -> S] : k \in 0..n} :
        \A i, j \in 1..Len(q) : i # j => q[i] # q[j]}

\* load_grades found nothing graded: no document, or one without results
UngradedDocs ==
    { None,
      Some(<<>>),
      Some([graded_at |-> Some("2024-05-01T10:00:00"), grader |-> Some("auto")]),
      Some([results |-> None]),
      Some([results |-> Some(<<>>)]),
      Some([results |-> Some(<<>>), grader |-> Some("auto")]) }

\* one scenario, one skill-set, every shape of record
ShapeRecords ==
    { GradeRecord(success, score, tool_usage, notes) :
        success \in {Absent, None, Some(TRUE), Some(FALSE)},
        score \in {Absent, None, Some(0), Some(7)},
        tool_usage \in {Absent, None, Some(""), Some("appropriate"), Some("Partial"),
                        Some("INAPPROPRIATE"), Some("excellent")},
        notes \in {Absent, None, Some(""), Some("timeout")} }

ShapeDocs ==
    { Some([results |-> Some(<< <<"login", << <<"a", r>> >> >> >>), grader |-> Some("auto")]) :
        r \in ShapeRecords }

\* every arrangement of up to MaxScenarios scenarios, each holding any arrangement
\* of the skill-sets, each skill-set of a scenario with a record of its own
MatrixRecords ==
    { GradeRecord(Some(TRUE), Some(9), Some("Appropriate"), Absent),
      GradeRecord(Some(FALSE), Some(2), Some("unsure"), Some("timeout")) }

SkillSetDicts ==
    UNION { { [i \in 1..Len(names) |-> <<names[i], recs[i]>>] :
                recs \in DistinctSeqs(MatrixRecords, Len(names)) \cap
                         [1..Len(names) -> MatrixRecords] } :
            names \in DistinctSeqs(SkillSetNames, Cardinality(SkillSetNames)) }

MatrixResults ==
    UNION { { [i \in 1..Len(names) |-> <<names[i], dicts[i]>>] :
                dicts \in [1..Len(names) -> SkillSetDicts] } :
            names \in DistinctSeqs(ScenarioNames, MaxScenarios) }

MatrixDocs == { Some(GradeDocument(r)) : r \in MatrixResults }

\* one skill-set in n scenarios s1..sn: first nT passes, then nF failures, then
\* ungraded records
CountResults(nT, nF, n) ==
    [i \in 1..n |->
        << "s" \o StrNat(i),
           << << "a", IF i <= nT THEN GradeRecord(Some(TRUE), Absent, Absent, Absent)
                      ELSE IF i <= nT + nF
                      THEN GradeRecord(Some(FALSE), Absent, Absent, Absent)
                      ELSE GradeRecord(Absent, Absent, Absent, Absent) >> >> >>]

CountDocs ==
    { Some(GradeDocument(CountResults(c[1], c[2], c[3]))) :
        c \in { t \in (0..MaxRepeat) \X (0..MaxRepeat) \X (1..MaxRepeat) :
                t[1] + t[2] <= t[3] } }

\* one skill-set in up to MaxScored scenarios, every sequence of scores
ScoreChoices == {Absent, Some(0), Some(1), Some(-3)}

ScoreResults(scores) ==
    [i \in 1..Len(scores) |->
        << "s" \o StrNat(i),
           << << "a", GradeRecord(Some(TRUE), scores[i], Some("partial"), Absent) >> >> >>]

ScoreDocs ==
    { Some(GradeDocument(ScoreResults(q))) :
        q \in UNION {[1..k -> ScoreChoices] : k \in 1..MaxScored} }

GradeDocs == UngradedDocs \cup ShapeDocs \cup MatrixDocs \cup CountDocs \cup ScoreDocs

---------------------------------------------------------------------------
(* the report generator as a state machine *)

\* the run command at rest, for the behaviours that only make reports
RunIdle ==
    /\ scenario = None
    /\ all_scenarios = FALSE
    /\ scenarios_dir = None
    /\ pc = "idle"
    /\ scenario_dirs = <<>>
    /\ si = 0
    /\ ki = 0
    /\ created = <<>>
    /\ calls = <<>>
    /\ successes = <<>>
    /\ exit_code = None

Init ==
    /\ run_dir = "evals/runs/20240501-120000"
    /\ grades \in GradeDocs
    /\ reports = <<>>
    /\ call = "none"
    /\ outcome = Returned(None)
    /\ locals = NoLocals
    /\ RunIdle

\* load_grades(run_dir): the stored grades, or a storage failure
LoadGrades(ok) == IF ok THEN Returned(grades) ELSE Raised("OSError")

\* a call of generate_report(run_dir)
GenerateReportCall ==
    /\ \E ok \in BOOLEAN :
         LET r == GenerateReport(LoadGrades(ok), run_dir)
         IN /\ outcome' = r.out
            /\ locals' = r.locals
    /\ call' = "generate_report"
    /\ UNCHANGED <<run_dir, grades, reports>>
    /\ UNCHANGED runVars

Next == GenerateReportCall

Spec == Init /\ [][Next]_vars

\* the documents save_report is run on, and what reports_dir holds before
SavedDocs == UngradedDocs \cup ShapeDocs

ReportsBefore(dir) ==
    { <<>>,
      (PathName(dir) \o ".md") :> "# Eval Report: stale",
      "other.md" :> "# Eval Report: other" }

InitSave ==
    /\ run_dir \in RunDirs
    /\ grades \in SavedDocs
    /\ reports \in ReportsBefore(run_dir)
    /\ call = "none"
    /\ outcome = Returned(None)
    /\ locals = NoLocals
    /\ RunIdle

\* a call of save_report(run_dir, reports_dir)
SaveReportCall ==
    /\ \E ok \in BOOLEAN, io \in {"ok", "open_fails", "write_fails"} :
         LET r == SaveReport(LoadGrades(ok), run_dir, reports, io)
         IN /\ outcome' = r.out
            /\ reports' = r.files
            /\ locals' = r.locals
    /\ call' = "save_report"
    /\ UNCHANGED <<run_dir, grades>>
    /\ UNCHANGED runVars

NextSave == SaveReportCall

SpecSave == InitSave /\ [][NextSave]_vars

---------------------------------------------------------------------------
(* the run command, cli.py lines 30-73 *)

MaxEntries == 3

\* what evals/scenarios may hold: scenario directories with the skill-sets their
\* scenario lists, a hidden directory, a plain file
ScenarioEntries ==
    { [name |-> "login", is_dir |-> TRUE, skill_sets |-> <<"base", "dbt">>],
      [name |-> "signup", is_dir |-> TRUE, skill_sets |-> <<"dbt">>],
      [name |-> "empty", is_dir |-> TRUE, skill_sets |-> <<>>],
      [name |-> ".cache", is_dir |-> TRUE, skill_sets |-> <<"base">>],
      [name |-> "README.md", is_dir |-> FALSE, skill_sets |-> <<>>] }

ScenarioArguments == {None, Some(""), Some("login"), Some("nope"), Some(".cache")}

\* lines 42-44: the entries that are directories and not hidden, in iterdir order
RECURSIVE VisibleDirs(_)
VisibleDirs(entries) ==
    IF Len(entries) = 0 THEN <<>>
    ELSE (IF entries[1].is_dir /\ ~StartsWith(entries[1].name, ".")
          THEN <<entries[1]>> ELSE <<>>)
         \o VisibleDirs(Tail(entries))

\* lines 41-53: the scenarios selected, or how the command ends instead
SelectScenarios(name, all, dir) ==
    IF all
    THEN IF dir = None
         THEN [ends |-> "raised", dirs |-> <<>>]
         ELSE [ends |-> "", dirs |-> VisibleDirs(dir[1])]
    ELSE IF name # None /\ name # Some("")
    THEN IF dir # None /\ \E i \in 1..Len(dir[1]) : dir[1][i].name = name[1]
         THEN [ends |-> "",
               dirs |-> <<dir[1][CHOOSE i \in 1..Len(dir[1]) : dir[1][i].name = name[1]]>>]
         ELSE [ends |-> "exit", dirs |-> <<>>]
    ELSE [ends |-> "exit", dirs |-> <<>>]

\* load_scenario(scenario_dir): the scenario's name and its skill-sets as listed
LoadScenario(scenario_dir) ==
    [name |-> scenario_dir.name, skill_sets |-> scenario_dir.skill_sets]

\* a slip at lines 67-70: a failed result ends the command
AdvanceUntilFailure(success, s, k) ==
    IF ~success THEN [pc |-> "finish", si |-> s, ki |-> k]
    ELSE IF k < Len(LoadScenario(scenario_dirs[s]).skill_sets)
    THEN [pc |-> "run", si |-> s, ki |-> k + 1]
    ELSE IF s < Len(scenario_dirs) THEN [pc |-> "load", si |-> s + 1, ki |-> 0]
    ELSE [pc |-> "finish", si |-> s, ki |-> k]

\* lines 60, 64, 67-70: where the loops stand after skill-set k of scenario s gave
\* a result (its success is printed only)
Advance(success, s, k) ==
    IF k < Len(LoadScenario(scenario_dirs[s]).skill_sets)
    THEN [pc |-> "run", si |-> s, ki |-> k + 1]
    ELSE IF s < Len(scenario_dirs) THEN [pc |-> "load", si |-> s + 1, ki |-> 0]
    ELSE [pc |-> "finish", si |-> s, ki |-> k]

\* the report generator at rest, for the behaviours of the run command
ReportIdle ==
    /\ run_dir = "evals/runs/20240501-120000"
    /\ grades = None
    /\ reports = <<>>
    /\ call = "none"
    /\ outcome = Returned(None)
    /\ locals = NoLocals

InitRun ==
    /\ ReportIdle
    /\ scenario \in ScenarioArguments
    /\ all_scenarios \in BOOLEAN
    /\ scenarios_dir \in {None} \cup {Some(q) : q \in DistinctSeqs(ScenarioEntries, MaxEntries)}
    /\ pc = "start"
    /\ scenario_dirs = <<>>
    /\ si = 0
    /\ ki = 0
    /\ created = <<>>
    /\ calls = <<>>
    /\ successes = <<>>
    /\ exit_code = None

\* lines 41-53
RunSelect ==
    /\ pc = "start"
    /\ LET sel == SelectScenarios(scenario, all_scenarios, scenarios_dir)
       IN /\ scenario_dirs' = sel.dirs
          /\ pc' = IF sel.ends = "" THEN "create" ELSE sel.ends
          /\ exit_code' = IF sel.ends = "" THEN None ELSE Some(1)
    /\ UNCHANGED <<scenario, all_scenarios, scenarios_dir, si, ki, created, calls, successes>>
    /\ UNCHANGED reportVars

\* lines 55-58: runner.create_run_dir()
RunCreateRunDir ==
    /\ pc = "create"
    /\ created' = Append(created, "runs/run-" \o StrNat(Len(created) + 1))
    /\ pc' = IF Len(scenario_dirs) = 0 THEN "finish" ELSE "load"
    /\ si' = IF Len(scenario_dirs) = 0 THEN 0 ELSE 1
    /\ UNCHANGED <<scenario, all_scenarios, scenarios_dir, scenario_dirs, ki, calls,
                   successes, exit_code>>
    /\ UNCHANGED reportVars

\* lines 60-62: the next scenario is loaded
RunLoadScenario ==
    /\ pc = "load"
    /\ LET scenario_obj == LoadScenario(scenario_dirs[si])
           pos == IF Len(scenario_obj.skill_sets) > 0
                  THEN [pc |-> "run", si |-> si, ki |-> 1]
                  ELSE IF si < Len(scenario_dirs) THEN [pc |-> "load", si |-> si + 1, ki |-> 0]
                  ELSE [pc |-> "finish", si |-> si, ki |-> 0]
       IN /\ pc' = pos.pc
          /\ si' = pos.si
          /\ ki' = pos.ki
    /\ UNCHANGED <<scenario, all_scenarios, scenarios_dir, scenario_dirs, created, calls,
                   successes, exit_code>>
    /\ UNCHANGED reportVars

\* lines 64-70: runner.run_scenario(scenario_obj, skill_set, run_dir) and its result
RunSkillSet ==
    /\ pc = "run"
    /\ \E success \in BOOLEAN :
         LET scenario_obj == LoadScenario(scenario_dirs[si])
             pos == Advance(success, si, ki)
         IN /\ calls' = Append(calls, <<scenario_obj.name, scenario_obj.skill_sets[ki],
                                        created[Len(created)]>>)
            /\ successes' = Append(successes, success)
            /\ pc' = pos.pc
            /\ si' = pos.si
            /\ ki' = pos.ki
    /\ UNCHANGED <<scenario, all_scenarios, scenarios_dir, scenario_dirs, created, exit_code>>
    /\ UNCHANGED reportVars

\* lines 72-73: the command ends
RunFinish ==
    /\ pc = "finish"
    /\ pc' = "done"
    /\ exit_code' = Some(0)
    /\ UNCHANGED <<scenario, all_scenarios, scenarios_dir, scenario_dirs, si, ki, created,
                   calls, successes>>
    /\ UNCHANGED reportVars

NextRun == RunSelect \/ RunCreateRunDir \/ RunLoadScenario \/ RunSkillSet \/ RunFinish

SpecRun == InitRun /\ [][NextRun]_vars

---------------------------------------------------------------------------
(* reading a document and a rendered report, for the properties below *)

\* generate_report was called, load_grades returned a graded document and a
\* report of it came back
ReportReturned ==
    /\ call = "generate_report"
    /\ outcome.raised = ""
    /\ locals.lines # <<>>

\* the results mapping of the stored document
Results == grades[1]["results"][1]

Lines == locals.lines

SkillSetsIn(results) == UNION {Keys(results[i][2]) : i \in 1..Len(results)}

\* the scenarios (by position) in which a skill-set name appears
ScenariosWith(name) == {i \in 1..Len(Results) : name \in Keys(Results[i][2])}

RecordOf(i, name) == ItemValue(Results[i][2], name)

\* a field of a record holds a value (is neither missing nor null)
Holds(rec, field) == field \in DOMAIN rec /\ rec[field] # None

\* the parts of s between the occurrences of sep
RECURSIVE SplitOn(_, _)
SplitOn(s, sep) ==
    LET hits == {i \in 1..(Len(s) - Len(sep) + 1) : SubSeq(s, i, i + Len(sep) - 1) = sep}
    IN IF hits = {} THEN <<s>>
       ELSE LET i == CHOOSE h \in hits : \A g \in hits : h <= g
            IN <<SubSeq(s, 1, i - 1)>> \o SplitOn(SubSeq(s, i + Len(sep), Len(s)), sep)

\* the summary rows: the lines after the two table header lines, up to the blank
\* line that ends the table
SummaryRowIndexes ==
    {i \in 10..Len(Lines) : \A j \in 10..i : Lines[j] # ""}

\* the cells of a summary row
Cells(row) == SplitOn(row, " | ")

RowsFor(name) == {i \in SummaryRowIndexes : Cells(Lines[i])[1] = "| " \o name}

\* the sum of f over the finite set S
RECURSIVE SumOver(_, _)
SumOver(S, f) ==
    IF S = {} THEN 0
    ELSE LET x == CHOOSE y \in S : TRUE IN f[x] + SumOver(S \ {x}, f)

Abs(n) == IF n < 0 THEN -n ELSE n

\* n is an integer nearest to num/den
Nearest(n, num, den) == 2 * Abs(num - n * den) <= den

\* Python's round(num/den): the nearest integer, the even one of two
PyRound(num, den) ==
    CHOOSE n \in 0..(num \div den + 1) :
        /\ Nearest(n, num, den)
        /\ (2 * Abs(num - n * den) = den => n % 2 = 0)

\* the decimal text of t tenths
TenthsText(t) ==
    (IF t < 0 THEN "-" ELSE "") \o ToString(Abs(t) \div 10) \o "." \o ToString(Abs(t) % 10)

---------------------------------------------------------------------------
(* C1: for every skill-set name of the results, the report has exactly one   *)
(* summary row for it; its total is the number of scenarios holding the      *)
(* name, its passed the number of those records whose success is true        *)
(* (false, null and missing do not count), passed <= total, and the          *)
(* percentage shown is round(passed/total*100) with no decimals.             *)
PassRateCorrect ==
    ReportReturned =>
        \A name \in SkillSetsIn(Results) :
            LET total == Cardinality(ScenariosWith(name))
                passed == Cardinality({i \in ScenariosWith(name) :
                              /\ Holds(RecordOf(i, name), "success")
                              /\ RecordOf(i, name)["success"][1] = TRUE})
                stats == ItemValue(locals.skill_set_stats, name)
            IN /\ Cardinality(RowsFor(name)) = 1
               /\ stats.total = total
               /\ stats.passed = passed
               /\ stats.passed <= stats.total
               /\ \A i \in RowsFor(name) :
                     Cells(Lines[i])[2] =
                        ToString(passed) \o "/" \o ToString(total) \o " ("
                        \o ToString(PyRound(100 * passed, total)) \o "%)"

\* C1's case: a skill-set in eight scenarios with one pass, failures and ungraded
\* records, whose 12.5 per cent is shown as 12
PassRateWitness ==
    /\ ReportReturned
    /\ \E name \in SkillSetsIn(Results) :
          /\ Cardinality(ScenariosWith(name)) = 8
          /\ \E i, j \in ScenariosWith(name) :
                /\ RecordOf(i, name) = GradeRecord(Some(FALSE), Absent, Absent, Absent)
                /\ "success" \notin DOMAIN RecordOf(j, name)
          /\ \E r \in RowsFor(name) : Cells(Lines[r])[2] = "1/8 (12%)"

---------------------------------------------------------------------------
(* C2: for every skill-set, the average shown in its summary row is the mean *)
(* of exactly the scores its records hold (a score of 0 counts, a missing or *)
(* null score counts neither in the sum nor in the number), rounded to one   *)
(* decimal, and 0.0 when no record holds a score.                            *)
AverageCorrect ==
    ReportReturned =>
        \A name \in SkillSetsIn(Results) :
            LET scored == {i \in ScenariosWith(name) : Holds(RecordOf(i, name), "score")}
                n == Cardinality(scored)
                sum == SumOver(scored, [i \in scored |-> RecordOf(i, name)["score"][1]])
                bound == 10 * Abs(sum) + 1
            IN \A r \in RowsFor(name) :
                  IF n = 0 THEN Cells(Lines[r])[3] = "0.0"
                  ELSE \E t \in (-bound)..bound :
                          /\ Nearest(t, 10 * sum, n)
                          /\ Cells(Lines[r])[3] = TenthsText(t)

\* C2's case: a skill-set with a score of 0, a record without score and a score of
\* 1, whose average is 0.5
AverageWitness ==
    /\ ReportReturned
    /\ \E name \in SkillSetsIn(Results) :
          /\ \E i, j \in ScenariosWith(name) :
                /\ Holds(RecordOf(i, name), "score")
                /\ RecordOf(i, name)["score"] = Some(0)
                /\ ~Holds(RecordOf(j, name), "score")
          /\ \E r \in RowsFor(name) : Cells(Lines[r])[3] = "0.5"

---------------------------------------------------------------------------
(* the order of names, and the sections of a report *)

\* a precedes b in code point order: they agree up to a place where a ends or
\* holds the smaller code point
CodeLess(a, b) ==
    \E k \in 1..Len(b) :
        /\ \A j \in 1..(k - 1) : j <= Len(a) /\ CharAt(a, j) = CharAt(b, j)
        /\ \/ k = Len(a) + 1
           \/ k <= Len(a) /\ Ord(CharAt(a, k)) < Ord(CharAt(b, k))

\* the items of d, arranged by the place of their key among the keys
Arranged(d) ==
    [i \in 1..Len(d) |->
        LET key == CHOOSE k \in Keys(d) :
                      Cardinality({x \in Keys(d) : CodeLess(x, k)}) = i - 1
        IN <<key, ItemValue(d, key)>>]

\* the one arrangement of a results mapping that depends on its content alone
ArrangedResults(results) ==
    LET top == Arranged(results)
    IN [i \in 1..Len(top) |-> <<top[i][1], Arranged(top[i][2])>>]

\* the line "## By Scenario"
BySection == CHOOSE i \in 1..Len(Lines) : Lines[i] = "## By Scenario"

ScenarioHeaders == {i \in (BySection + 1)..Len(Lines) : StartsWith(Lines[i], "### ")}

DetailIndexes == {i \in (BySection + 1)..Len(Lines) : StartsWith(Lines[i], "- **")}

\* the detail lines under the header at line h
BlockOf(h) == {j \in DetailIndexes : j > h /\ \A k \in ScenarioHeaders : k > h => j < k}

RowName(i) == SubSeq(Cells(Lines[i])[1], 3, Len(Cells(Lines[i])[1]))

HeaderName(i) == SubSeq(Lines[i], 5, Len(Lines[i]))

DetailName(i) == SplitOn(SubSeq(Lines[i], 5, Len(Lines[i])), "**: ")[1]

---------------------------------------------------------------------------
(* C3: the report of a document is the report of the arrangement of its      *)
(* content by name, so two documents with the same content in different      *)
(* iteration orders give the same string; the summary rows, the scenario     *)
(* subsections and the lines of each scenario stand in code point order of   *)
(* their names.                                                              *)
OrderIndependent ==
    ReportReturned =>
        /\ outcome =
             GenerateReport(
                Returned(Some([grades[1] EXCEPT !["results"] = Some(ArrangedResults(Results))])),
                run_dir).out
        /\ \A i, j \in SummaryRowIndexes : i < j => CodeLess(RowName(i), RowName(j))
        /\ {RowName(i) : i \in SummaryRowIndexes} = SkillSetsIn(Results)
        /\ \A i, j \in ScenarioHeaders : i < j => CodeLess(HeaderName(i), HeaderName(j))
        /\ {HeaderName(i) : i \in ScenarioHeaders} = Keys(Results)
        /\ \A h \in ScenarioHeaders :
              \A i, j \in BlockOf(h) : i < j => CodeLess(DetailName(i), DetailName(j))

\* C3's case: a document that lists its scenarios and the skill-sets of one of
\* them out of order
OrderWitness ==
    /\ ReportReturned
    /\ Len(Results) >= 2
    /\ CodeLess(Results[2][1], Results[1][1])
    /\ \E i \in 1..Len(Results) :
          /\ Len(Results[i][2]) = 2
          /\ CodeLess(Results[i][2][2][1], Results[i][2][1][1])
    /\ Cardinality(SummaryRowIndexes) = 2

---------------------------------------------------------------------------
(* C4: when load_grades returns None, a document without results, or one     *)
(* whose results are empty, generate_report returns the fallback text and    *)
(* nothing else: no title, no metadata, no section.                          *)
FallbackWhenUngraded ==
    ( /\ call = "generate_report"
      /\ outcome.raised # "OSError"
      /\ \/ grades = None
         \/ "results" \notin DOMAIN grades[1]
         \/ grades[1]["results"] = Some(<<>>) )
    => /\ outcome = Returned("# No grades found\n\nRun {U+0060}skill-eval grade{U+0060} first.")
       /\ locals.lines = <<>>

\* C4's case: a document with metadata and an empty results mapping was reported
FallbackWitness ==
    /\ call = "generate_report"
    /\ outcome.raised = ""
    /\ grades = Some([results |-> Some(<<>>), grader |-> Some("auto")])

---------------------------------------------------------------------------
(* C5, as claimed: a document with results {} gives a report with the        *)
(* Summary section and an empty summary table.                               *)
EmptyResultsRenderSummary ==
    ( /\ call = "generate_report"
      /\ outcome.raised # "OSError"
      /\ grades # None
      /\ "results" \in DOMAIN grades[1]
      /\ grades[1]["results"] = Some(<<>>) )
    => /\ outcome.raised = ""
       /\ Len(Lines) >= 9
       /\ Lines[6] = "## Summary"
       /\ Lines[8] = "| Skill Set | Passed | Avg Score | Tool Usage |"
       /\ SummaryRowIndexes = {}

(* C5, as amended: a document with results {} makes generate_report return,  *)
(* without failing, the fallback text, with no Summary section and no        *)
(* aggregation; the empty stats mapping and the summary table of a header    *)
(* and no row come from results that hold scenarios but no record.           *)
EmptyResultsFallBack ==
    ( /\ call = "generate_report"
      /\ outcome.raised # "OSError"
      /\ grades # None
      /\ "results" \in DOMAIN grades[1]
      /\ grades[1]["results"] # None )
    => /\ Results = <<>> =>
             /\ outcome.raised = ""
             /\ SplitOn(outcome.value, "\n")[1] = "# No grades found"
             /\ \A i \in 1..Len(SplitOn(outcome.value, "\n")) :
                   SplitOn(outcome.value, "\n")[i] # "## Summary"
             /\ locals = NoLocals
       /\ (Results # <<>> /\ SkillSetsIn(Results) = {}) =>
             /\ outcome.raised = ""
             /\ locals.skill_set_stats = <<>>
             /\ SplitOn(outcome.value, "\n") = Lines
             /\ Lines[6] = "## Summary"
             /\ Lines[8] = "| Skill Set | Passed | Avg Score | Tool Usage |"
             /\ Lines[10] = ""
             /\ SummaryRowIndexes = {}

\* C5's case: a document whose results mapping is {} was reported
EmptyResultsWitness ==
    /\ call = "generate_report"
    /\ outcome.raised = ""
    /\ grades = Some([results |-> Some(<<>>)])

---------------------------------------------------------------------------
(* C6, as claimed: whatever fields a record holds or lacks, null ones        *)
(* included, generate_report returns a report.                               *)
EveryRecordShapeRenders ==
    (call = "generate_report" /\ outcome.raised # "OSError") => outcome.raised = ""

---------------------------------------------------------------------------
(* C7: for every skill-set, each tally of its summary row is the number of   *)
(* its records whose tool_usage, letter case aside, is that canonical label; *)
(* other and missing labels count in total only, so the tallies sum to at    *)
(* most total.                                                               *)
SameButCase(label, canonical) ==
    /\ Len(label) = Len(canonical)
    /\ \A i \in 1..Len(label) :
          \/ CharAt(label, i) = CharAt(canonical, i)
          \/ /\ Ord(CharAt(label, i)) \in 65..90
             /\ Ord(CharAt(label, i)) + 32 = Ord(CharAt(canonical, i))

TalliesCorrect ==
    ReportReturned =>
        \A name \in SkillSetsIn(Results) :
            LET Tally(canonical) ==
                    Cardinality({i \in ScenariosWith(name) :
                        /\ Holds(RecordOf(i, name), "tool_usage")
                        /\ SameButCase(RecordOf(i, name)["tool_usage"][1], canonical)})
                tallies == ItemValue(locals.skill_set_stats, name).tool_usage
            IN /\ \A r \in RowsFor(name) :
                     Cells(Lines[r])[4] =
                        ToString(Tally("appropriate")) \o "{U+2713} "
                        \o ToString(Tally("partial")) \o "~ "
                        \o ToString(Tally("inappropriate")) \o "{U+2717} |"
               /\ tallies["appropriate"] + tallies["partial"] + tallies["inappropriate"]
                     <= ItemValue(locals.skill_set_stats, name).total
               /\ \A k \in ToolUsageKeys : tallies[k] = Tally(k)

\* C7's case: a skill-set with a label in another letter case, which is tallied,
\* and a label outside the three, which is not
TalliesWitness ==
    /\ ReportReturned
    /\ \E name \in SkillSetsIn(Results) :
          /\ \E i, j \in ScenariosWith(name) :
                /\ Holds(RecordOf(i, name), "tool_usage")
                /\ RecordOf(i, name)["tool_usage"] = Some("Appropriate")
                /\ Holds(RecordOf(j, name), "tool_usage")
                /\ RecordOf(j, name)["tool_usage"] = Some("unsure")
          /\ \E r \in RowsFor(name) : Cells(Lines[r])[4] = "1{U+2713} 0~ 0{U+2717} |"

---------------------------------------------------------------------------
(* C8: in the By Scenario section every record has exactly one line, under   *)
(* its scenario: the check mark iff success is true, the cross iff it is     *)
(* false, the question mark iff it is missing; then the score in parentheses *)
(* iff there is one (0 included), [tools: label] with the label as written   *)
(* iff tool_usage is a non-empty string, and " - notes" iff notes is a       *)
(* non-empty string.                                                         *)
ExpectedDetail(name, rec) ==
    "- **" \o name \o "**: "
    \o (IF Holds(rec, "success")
        THEN (IF rec["success"][1] THEN "{U+2713}" ELSE "{U+274C}")
        ELSE "?")
    \o " "
    \o (IF Holds(rec, "score") THEN "(" \o ToString(rec["score"][1]) \o ")" ELSE "")
    \o (IF Holds(rec, "tool_usage") /\ rec["tool_usage"][1] # ""
        THEN " [tools: " \o rec["tool_usage"][1] \o "]" ELSE "")
    \o (IF Holds(rec, "notes") /\ rec["notes"][1] # ""
        THEN " - " \o rec["notes"][1] ELSE "")

DetailLinesCorrect ==
    ReportReturned =>
        \A s \in 1..Len(Results) :
            LET heads == {h \in ScenarioHeaders : HeaderName(h) = Results[s][1]}
            IN /\ Cardinality(heads) = 1
               /\ \A h \in heads :
                     /\ Cardinality(BlockOf(h)) = Len(Results[s][2])
                     /\ \A name \in Keys(Results[s][2]) :
                           LET mine == {j \in BlockOf(h) : DetailName(j) = name}
                           IN /\ Cardinality(mine) = 1
                              /\ \A j \in mine :
                                    Lines[j] = ExpectedDetail(name, RecordOf(s, name))

\* C8's case: an ungraded record with a score of 0, a label and notes
DetailLinesWitness ==
    /\ ReportReturned
    /\ \E s \in 1..Len(Results) : \E name \in Keys(Results[s][2]) :
          /\ RecordOf(s, name) = GradeRecord(Absent, Some(0), Some("Partial"), Some("timeout"))
          /\ \E j \in DetailIndexes : Lines[j] = "- **a**: ? (0) [tools: Partial] - timeout"

---------------------------------------------------------------------------
(* C9: save_report writes the string generate_report returns for run_dir to  *)
(* reports_dir/<base name of run_dir>.md, creating or overwriting it, and    *)
(* returns that path; a failure to read the grades or to write the file is   *)
(* raised as it is and no path is returned, so no caller holds a path while  *)
(* the stored report is missing or is not the report of the stored grades.   *)

\* the part of a path after its last "/"
BaseName(path) ==
    LET k == CHOOSE i \in 1..(Len(path) + 1) :
                /\ \A j \in i..Len(path) : CharAt(path, j) # "/"
                /\ (i > 1 => CharAt(path, i - 1) = "/")
    IN SubSeq(path, k, Len(path))

SaveReportFaithful ==
    call = "save_report" =>
        LET file == BaseName(run_dir) \o ".md"
            report == GenerateReport(Returned(grades), run_dir).out
        IN IF outcome.raised = ""
           THEN /\ outcome.value = "reports/" \o file
                /\ report.raised = ""
                /\ file \in DOMAIN reports
                /\ reports[file] = report.value
           ELSE /\ outcome.value = None
                /\ outcome.raised \in {"OSError", report.raised}

\* C9's case: the report of a graded document was saved beside another run's
SaveReportWitness ==
    /\ call = "save_report"
    /\ outcome = Returned("reports/20240501-120000.md")
    /\ DOMAIN reports = {"20240501-120000.md", "other.md"}
    /\ locals.lines # <<>>
    /\ reports["20240501-120000.md"] = Join(locals.lines)

---------------------------------------------------------------------------
(* C10: once the arguments of run are accepted, one run directory is made,   *)
(* before any scenario is run, and runner.run_scenario is called once for    *)
(* every skill-set of every selected scenario, scenario by scenario and in   *)
(* the listed order, always with that run directory; a failed result stops   *)
(* nothing. Without a scenario name and without --all, or with the name of   *)
(* no scenario, the command exits with code 1, no run directory made and     *)
(* nothing run.                                                              *)

\* the number of calls due before scenario s of the selection is reached
CallsBefore(s) ==
    SumOver(1..(s - 1), [i \in 1..(s - 1) |-> Len(scenario_dirs[i].skill_sets)])

\* the arguments are refused: no --all, and no name or the name of no entry
Refused ==
    /\ ~all_scenarios
    /\ \/ scenario = None
       \/ scenario = Some("")
       \/ scenarios_dir = None
       \/ \A i \in 1..Len(scenarios_dir[1]) : scenarios_dir[1][i].name # scenario[1]

RunCommandCorrect ==
    /\ Len(created) <= 1
    /\ calls # <<>> => Len(created) = 1
    /\ pc \in {"load", "run", "finish", "done"} =>
          /\ Len(created) = 1
          /\ Len(calls) <= CallsBefore(Len(scenario_dirs) + 1)
          /\ \A s \in 1..Len(scenario_dirs) :
                \A k \in 1..Len(scenario_dirs[s].skill_sets) :
                    CallsBefore(s) + k <= Len(calls) =>
                        calls[CallsBefore(s) + k] =
                            <<scenario_dirs[s].name, scenario_dirs[s].skill_sets[k], created[1]>>
          /\ (~all_scenarios =>
                Len(scenario_dirs) = 1 /\ Some(scenario_dirs[1].name) = scenario)
    /\ pc \in {"create", "load", "run", "finish"} => exit_code = None /\ ENABLED NextRun
    /\ pc = "done" => exit_code = Some(0) /\ Len(calls) = CallsBefore(Len(scenario_dirs) + 1)
    /\ (Refused /\ pc # "start") =>
          pc = "exit" /\ exit_code = Some(1) /\ created = <<>> /\ calls = <<>>
    /\ exit_code = Some(1) => created = <<>> /\ calls = <<>>

\* C10's case: --all ran three pairs of two scenarios to the end although the
\* first result was a failure
RunCommandWitness ==
    /\ pc = "done"
    /\ all_scenarios
    /\ Len(scenario_dirs) = 2
    /\ Len(calls) = 3
    /\ successes[1] = FALSE
    /\ calls[3][3] = created[1]

====
